---------------------------- MODULE Spec2Model ----------------------------
(***************************************************************************)
(* The intraday option-data acquisition pipeline of NSERC-bot-trader:      *)
(* get_data of src/getData/intraday.py (log, connect, plan, fetch loop     *)
(* with cooldown, per-strike parquet partitions, merge) as a state         *)
(* machine over the working directory's files and the program position.   *)
(*                                                                         *)
(* Encodings.  Times are minutes since midnight (09:30 = 570).  Strikes    *)
(* are integers.  The opening price is kept in tenths of a point so that   *)
(* a value halfway between two strikes can be written.  An absent          *)
(* optional argument (Python None) is NONE.  The 1800 one-second rows      *)
(* that one (strike, window) pair contributes are one "chunk": they are    *)
(* built in one DataFrame and stored by one write.                         *)
(***************************************************************************)
EXTENDS Integers, Sequences, FiniteSets, Bags, TLC

NONE == 0 - 1

(***************************************************************************)
(* Bounds of the exploration.                                              *)
(***************************************************************************)
MaxRuns == 2
MaxLegacyRuns == 1
MaxUniverse == 16
MaxBatch == 6
MinPrice10 == 50000
MaxPrice10 == 50200
MaxStrikes == 3
MaxSamples == 2
MaxSpreads == 2

(***************************************************************************)
(* Program constants.                                                      *)
(***************************************************************************)
SESSION_OPEN == 570
SESSION_CLOSE == 960
INTERVAL_MINUTES == 30
STRIKE_STEP == 5
RATE_LIMIT_STRIKES == 15
SECONDS_PER_WINDOW == 1800

\* the earlier script, src/intraday.py
LEGACY_INTERVAL_MINUTES == 60
LEGACY_REQUEST_MINUTES == 60
LEGACY_NUM_OF_STRIKES == 30

PRICE_TYPES == <<"CallBid", "CallAsk", "PutBid", "PutAsk">>

(***************************************************************************)
(* Small helpers over sequences.                                           *)
(***************************************************************************)
Range(seq) == {seq[i] : i \in DOMAIN seq}

Last(seq) == seq[Len(seq)]

Min(a, b) == IF a <= b THEN a ELSE b

RECURSIVE SortAsc(_)
SortAsc(S) ==
    IF S = {} THEN <<>>
    ELSE LET m == CHOOSE x \in S : \A y \in S : x <= y
         IN  <<m>> \o SortAsc(S \ {m})

Reverse(seq) == [i \in 1..Len(seq) |-> seq[Len(seq) + 1 - i]]

(***************************************************************************)
(* Python's round() of the fraction num/den (den > 0): to the nearest      *)
(* integer, a tie going to the even neighbour.                             *)
(***************************************************************************)
PyRound(num, den) ==
    LET q == num \div den
        r == num % den
    IN  IF 2 * r < den THEN q
        ELSE IF 2 * r > den THEN q + 1
        ELSE IF q % 2 = 0 THEN q ELSE q + 1

\* round_to_multiple with a tie always going up: base * floor(x / base + 0.5)
round_to_multiple_half_up(x10, base) ==
    base * ((x10 + 5 * base) \div (10 * base))

\* round_to_multiple(x, base) with x given in tenths: base * round(x / base).
round_to_multiple(x10, base) == base * PyRound(x10, 10 * base)

\* Python's range(start, stop, step) for step > 0, as a sequence.
PyRange(start, stop, step) ==
    LET n == IF stop > start THEN (stop - start + step - 1) \div step ELSE 0
    IN  [i \in 1..n |-> start + (i - 1) * step]

\* pandas.date_range(start, end, freq): start, start+freq, ... not past end.
date_range(start, end, freq) ==
    LET n == IF end >= start THEN (end - start) \div freq + 1 ELSE 0
    IN  [i \in 1..n |-> start + (i - 1) * freq]

(***************************************************************************)
(* get_time_intervals: the boundaries of the windows to fetch, or an       *)
(* error.  The result is [err |-> BOOLEAN, val |-> sequence].              *)
(***************************************************************************)
\* get_time_intervals without the check that the end is after the start
get_time_intervals_no_order_check(interval_length, starting_time, ending_time) ==
    LET intervals == date_range(SESSION_OPEN, SESSION_CLOSE, interval_length)
        st == IF starting_time = NONE THEN SESSION_OPEN ELSE starting_time
        et == IF ending_time = NONE THEN SESSION_CLOSE ELSE ending_time
    IN  IF starting_time # NONE
           /\ (starting_time \notin Range(intervals) \/ starting_time = Last(intervals))
          THEN [err |-> TRUE, val |-> <<>>]
        ELSE IF ending_time # NONE
           /\ (ending_time \notin Range(intervals) \/ ending_time = intervals[1])
          THEN [err |-> TRUE, val |-> <<>>]
        ELSE IF st # SESSION_OPEN \/ et # SESSION_CLOSE
          THEN [err |-> FALSE, val |-> date_range(st, et, INTERVAL_MINUTES)]
        ELSE [err |-> FALSE, val |-> intervals]

get_time_intervals(interval_length, starting_time, ending_time) ==
    LET intervals == date_range(SESSION_OPEN, SESSION_CLOSE, interval_length)
        st == IF starting_time = NONE THEN SESSION_OPEN ELSE starting_time
        et == IF ending_time = NONE THEN SESSION_CLOSE ELSE ending_time
    IN  IF starting_time # NONE
           /\ (starting_time \notin Range(intervals) \/ starting_time = Last(intervals))
          THEN [err |-> TRUE, val |-> <<>>]
        ELSE IF ending_time # NONE
           /\ (ending_time \notin Range(intervals) \/ ending_time = intervals[1])
          THEN [err |-> TRUE, val |-> <<>>]
        ELSE IF et <= st
          THEN [err |-> TRUE, val |-> <<>>]
        ELSE IF st # SESSION_OPEN \/ et # SESSION_CLOSE
          THEN [err |-> FALSE, val |-> date_range(st, et, INTERVAL_MINUTES)]
        ELSE [err |-> FALSE, val |-> intervals]

\* create_sublist stepping by n + 1 while slicing n: range(0, len(list), n + 1)
create_sublist_step_off(list, n) ==
    LET k == (Len(list) + n) \div (n + 1)
    IN  [g \in 1..k |->
            SubSeq(list, (g - 1) * (n + 1) + 1,
                   Min((g - 1) * (n + 1) + n, Len(list)))]

\* create_sublist keeping only the groups of n elements: a last, shorter
\* group is dropped
create_sublist_full_groups(list, n) ==
    LET k == Len(list) \div n
    IN  [g \in 1..k |-> SubSeq(list, (g - 1) * n + 1, g * n)]

\* create_sublist(list, n): consecutive groups of n elements, the last shorter.
create_sublist(list, n) ==
    LET k == (Len(list) + n - 1) \div n
    IN  [g \in 1..k |-> SubSeq(list, (g - 1) * n + 1, Min(g * n, Len(list)))]

(***************************************************************************)
(* get_strike_range: the strike universe, or an error.                     *)
(***************************************************************************)
get_strike_range(number_of_strikes, opening_strike, starting_strike, ending_strike) ==
    LET lo == IF starting_strike = NONE
                THEN opening_strike - STRIKE_STEP * number_of_strikes
                ELSE round_to_multiple(10 * starting_strike, STRIKE_STEP)
        hi == IF ending_strike = NONE
                THEN opening_strike + STRIKE_STEP * number_of_strikes
                ELSE round_to_multiple(10 * ending_strike, STRIKE_STEP)
    IN  IF lo > hi THEN [err |-> TRUE, val |-> <<>>]
        ELSE [err |-> FALSE, val |-> PyRange(lo, hi, STRIKE_STEP)]


(***************************************************************************)
(* Inputs of the exploration: the arguments of get_data and the answers    *)
(* of the market-data session.                                             *)
(***************************************************************************)
\* strikes: <<number_of_strikes, starting_strike, ending_strike>>
\* times:   <<starting_time, ending_time>>
OutNames == {"out"}

\* explicit strike bounds: the universes <<100, 105>> and <<100>>
NarrowArgs ==
    [ out_filename : OutNames, binary : BOOLEAN,
      strikes : { <<30, 100, 110>>, <<30, 100, 105>> },
      times : { <<NONE, 600>>, <<NONE, 630>>, <<600, 630>> } ]

\* 8 strikes on each side of the opening strike: 16 strikes, two groups
WideArgs ==
    [ out_filename : OutNames, binary : {FALSE},
      strikes : { <<8, NONE, NONE>> },
      times : { <<NONE, 600>> } ]

\* arguments that validation or planning refuses
InvalidArgs ==
    [ out_filename : OutNames, binary : {TRUE},
      strikes : { <<30, 100, 100>>, <<30, 110, 100>> },
      times : { <<NONE, 600>> } ]
    \cup
    [ out_filename : OutNames, binary : {TRUE},
      strikes : { <<30, 100, 110>> },
      times : { <<600, 600>>, <<585, 630>> } ]

GetDataArgs == NarrowArgs \cup WideArgs \cup InvalidArgs

\* the 16 strikes over two windows: four batches
TwoByTwoArgs ==
    [ out_filename : OutNames, binary : {FALSE},
      strikes : { <<8, NONE, NONE>> },
      times : { <<NONE, 630>> } ]

\* opening prices the session may report, in tenths
OpenPrices == {1024}

\* a work unit: one series request
Unit(strike, price_type, end_interval) == <<strike, price_type, end_interval>>

\* the units for which the provider holds no bars: one unit of a frame, and
\* the four units of another frame
NoBars ==
    {Unit(100, "PutAsk", 600)}
      \cup {Unit(105, PRICE_TYPES[p], 630) : p \in DOMAIN PRICE_TYPES}

(***************************************************************************)
(* Files.  A partition file is a record: kind "empty" (zero bytes, as      *)
(* open(path,'w').close() leaves it), "parquet" (a table: its chunks of    *)
(* rows, and whether the table carries the timestamp index as a column)    *)
(* or "torn" (a write that the process did not finish).                    *)
(***************************************************************************)
EmptyFile == [kind |-> "empty", index |-> FALSE, rows |-> <<>>]

TornFile == [kind |-> "torn", index |-> FALSE, rows |-> <<>>]

ZeroFrame == [p \in 1..Len(PRICE_TYPES) |-> FALSE]

\* the rows of one (strike, window): cols[p] says whether column p holds
\* the provider's prices (TRUE) or the initial 0.0 (FALSE)
Chunk(strike, window, cols) == [strike |-> strike, window |-> window, cols |-> cols]

VARIABLES
    pc,             \* position of the running get_data, or how it ended
    raised,         \* the exception that ended the run, "none" if none
    runs,           \* number of runs started
    args,           \* arguments of the current run
    connected,      \* the session of the current process is connected
    intervals, open_strike, strike_range, strike_groups,
    wi, gi, si, pi, \* loop positions: window, group, strike in group, price type
    df,             \* the DataFrame of the strike being fetched
    logfile,        \* log.txt
    dlExists,       \* the folder dl exists
    parts,          \* dl/<strike>.parquet, for the strikes in its domain
    outputs,        \* the merged artifacts, by file name
    cwd,            \* working directory of the process
    mergeQueue,     \* partitions glob returned, not yet merged
    mergeRead,      \* partitions file_merge has read in this run
    requests,       \* series requests issued by the current run (a bag)
    sinceCooldown,  \* <<strike, end_interval>> requested since the last cooldown
    sessionFailed,  \* the session reported a hard failure in this run
    prev,           \* how the previous run ended: outcome, arguments, window
    found,          \* the partitions and artifacts the current run found
    partial,        \* partitions a stopped run left before its last window
    outstanding,    \* series requests sent to the session and not yet answered
    call            \* a function called on its own: input, progress and result

vars == << pc, raised, runs, args, connected, intervals, open_strike,
           strike_range, strike_groups, wi, gi, si, pi, df, logfile,
           dlExists, parts, outputs, cwd, mergeQueue, mergeRead, requests,
           sinceCooldown, sessionFailed, prev, found, partial, outstanding, call >>

planVars == << intervals, open_strike, strike_range, strike_groups >>
loopVars == << wi, gi, si, pi, df >>
fileVars == << logfile, dlExists, parts, outputs >>
mergeVars == << mergeQueue, mergeRead >>

NoArgs ==
    [ out_filename |-> "out", binary |-> TRUE,
      strikes |-> <<0, NONE, NONE>>, times |-> <<NONE, NONE>> ]

NoPrev == [outcome |-> "none", args |-> NoArgs, window |-> NONE]

NoCall == [fn |-> "none", input |-> <<>>, returned |-> FALSE, result |-> <<>>]

\* the state before get_data (or main) is called
InitProgram ==
    /\ pc = "idle"
    /\ raised = "none"
    /\ runs = 0
    /\ args = NoArgs
    /\ connected = FALSE
    /\ intervals = <<>>
    /\ open_strike = NONE
    /\ strike_range = <<>>
    /\ strike_groups = <<>>
    /\ wi = 1 /\ gi = 1 /\ si = 1 /\ pi = 1
    /\ df = ZeroFrame
    /\ logfile = [exists |-> FALSE, lines |-> <<>>]
    /\ dlExists = FALSE
    /\ parts = <<>>
    /\ outputs = <<>>
    /\ cwd = "."
    /\ mergeQueue = <<>>
    /\ mergeRead = {}
    /\ requests = EmptyBag
    /\ sinceCooldown = {}
    /\ sessionFailed = FALSE
    /\ prev = NoPrev
    /\ found = [parts |-> <<>>, outputs |-> <<>>]
    /\ partial = {}
    /\ outstanding = 0

Init == InitProgram /\ call = NoCall


(***************************************************************************)
(* The log class.                                                          *)
(***************************************************************************)
Line(tag, a, b) == [tag |-> tag, a |-> a, b |-> b]

\* the log opened for appending: what it held is kept
log_init_append(f) == [exists |-> TRUE, lines |-> f.lines]

\* log.__init__: open(log_filename, 'w').close()
log_init(f) == [exists |-> TRUE, lines |-> <<>>]

\* log.write: open(log_filename, 'a'), one line appended
log_write(f, line) == [exists |-> TRUE, lines |-> Append(f.lines, line)]

(***************************************************************************)
(* fetch_data: one series request.  answer is what the session does:       *)
(* "bars" (a non-empty list), "empty" (no bars: util.df gives None, the    *)
(* TypeError is caught and None is returned) or "raise" (the session       *)
(* raises, e.g. ConnectionError: nothing catches it).                      *)
(***************************************************************************)
\* fetch_data without its except clause: the TypeError of an empty answer
\* leaves the function
fetch_data_no_except(answer) ==
    [ raised |-> (answer # "bars"), data |-> (answer = "bars") ]

\* fetch_data with an except clause that catches every exception
fetch_data_catch_all(answer) ==
    [ raised |-> FALSE, data |-> (answer = "bars") ]

fetch_data(answer) ==
    [ raised |-> (answer = "raise"), data |-> (answer = "bars") ]

\* what the provider holds for a unit
Provider(unit) == IF unit \in NoBars THEN "empty" ELSE "bars"

(***************************************************************************)
(* file_write: append the frame to the partition if the file exists and    *)
(* is not empty (read, concat with ignore_index, rewrite), else write it   *)
(* as a new table (which keeps the frame's timestamp index as a column).   *)
(* The result is [err |-> BOOLEAN, file |-> the file afterwards].          *)
(***************************************************************************)
Exists(fs, name) == name \in DOMAIN fs

\* file_write that always writes the frame as a new table
file_write_overwrite(fs, name, chunk) ==
    [err |-> FALSE,
     file |-> [kind |-> "parquet", index |-> TRUE, rows |-> <<chunk>>]]

file_write(fs, name, chunk) ==
    IF Exists(fs, name) /\ fs[name].kind # "empty"
      THEN IF fs[name].kind = "torn"
             THEN [err |-> TRUE, file |-> fs[name]]
             ELSE [err |-> FALSE,
                   file |-> [kind |-> "parquet", index |-> FALSE,
                             rows |-> Append(fs[name].rows, chunk)]]
      ELSE [err |-> FALSE,
            file |-> [kind |-> "parquet", index |-> TRUE, rows |-> <<chunk>>]]

\* number of rows of a partition file: each chunk is the frame of one
\* window, one row per second
RowCount(file) == SECONDS_PER_WINDOW * Len(file.rows)

\* fs with file name set to file
Put(fs, name, file) ==
    [n \in DOMAIN fs \cup {name} |-> IF n = name THEN file ELSE fs[n]]

(***************************************************************************)
(* Positions of the loop of get_data.                                      *)
(***************************************************************************)
LoopPcs == {"strike", "fetch", "await", "write", "cooldown"}

RunningPcs ==
    {"connect", "intervals", "open_price", "strike_range", "folder",
     "merge", "merging", "disconnect"} \cup LoopPcs

StoppedPcs == {"idle", "done", "aborted", "crashed"}

CurGroup == strike_groups[gi]
CurStrike == CurGroup[si]
start_interval == intervals[wi]
end_interval == intervals[wi + 1]
LastWindow == intervals[Len(intervals) - 1]

\* strikes whose write for the current window is finished
WrittenInWindow ==
    UNION {Range(strike_groups[g]) : g \in 1..(gi - 1)}
      \cup {CurGroup[i] : i \in 1..(IF pc = "cooldown" THEN si ELSE si - 1)}

\* partitions of this run's universe that have not received its last window
Unfinished(fs) ==
    IF pc \notin LoopPcs THEN {}
    ELSE {s \in Range(strike_range) :
            /\ Exists(fs, s)
            /\ ~(start_interval = LastWindow /\ s \in WrittenInWindow)}

\* the run ends other than by returning: an exception leaves get_data, or
\* the process dies; fs are the partitions it leaves.  wi is kept when the
\* loop was running, and is 0 otherwise.
Stop(outcome, exc, fs) ==
    /\ pc' = outcome
    /\ raised' = exc
    /\ partial' = partial \cup Unfinished(fs)
    /\ wi' = IF pc \in LoopPcs THEN wi ELSE 0
    /\ gi' = 1 /\ si' = 1 /\ pi' = 1
    /\ df' = ZeroFrame
    /\ mergeQueue' = <<>>
    /\ requests' = EmptyBag
    /\ sinceCooldown' = {}
    /\ outstanding' = 0
    /\ UNCHANGED << runs, args, planVars, mergeRead, prev, found, call >>

(***************************************************************************)
(* get_data, step by step.                                                 *)
(***************************************************************************)
\* get_data is called in a new process: lines 356-362, up to and including
\* logfile = log("log.txt")
StartRun(a) ==
    /\ pc \in StoppedPcs
    /\ runs < MaxRuns
    /\ pc' = "connect"
    /\ raised' = "none"
    /\ runs' = runs + 1
    /\ args' = a
    /\ connected' = FALSE
    /\ intervals' = <<>> /\ open_strike' = NONE
    /\ strike_range' = <<>> /\ strike_groups' = <<>>
    /\ wi' = 1 /\ gi' = 1 /\ si' = 1 /\ pi' = 1
    /\ df' = ZeroFrame
    /\ logfile' = log_init(logfile)
    /\ cwd' = "."
    /\ mergeQueue' = <<>> /\ mergeRead' = {}
    /\ requests' = EmptyBag
    /\ sinceCooldown' = {}
    /\ sessionFailed' = FALSE
    /\ prev' = [ outcome |-> pc, args |-> args,
                 window |-> IF pc \in {"aborted", "crashed"} /\ wi > 0
                              THEN intervals[wi] ELSE NONE ]
    /\ found' = [parts |-> parts, outputs |-> outputs]
    /\ outstanding' = 0
    /\ UNCHANGED << dlExists, parts, outputs, partial, call >>

\* lines 365-370: ib.connect, ConnectionRefusedError logged and re-raised
Connect ==
    /\ pc = "connect"
    /\ \E refused \in BOOLEAN :
         IF refused
           THEN /\ logfile' = log_write(logfile, Line("ERROR", NONE, NONE))
                /\ Stop("aborted", "ConnectionError", parts)
                /\ UNCHANGED << connected, dlExists, parts, outputs, cwd,
                                sessionFailed >>
           ELSE /\ connected' = TRUE
                /\ pc' = "intervals"
                /\ UNCHANGED << raised, runs, args, planVars, loopVars,
                                fileVars, cwd, mergeVars, requests,
                                sinceCooldown, sessionFailed,
                                prev, found, partial, outstanding, call >>

\* line 373
GetTimeIntervals ==
    /\ pc = "intervals"
    /\ LET r == get_time_intervals(INTERVAL_MINUTES, args.times[1], args.times[2])
       IN  IF r.err
             THEN /\ Stop("aborted", "SyntaxError", parts)
                  /\ UNCHANGED << connected, fileVars, cwd, sessionFailed >>
             ELSE /\ intervals' = r.val
                  /\ pc' = "open_price"
                  /\ UNCHANGED << raised, runs, args, connected, open_strike,
                                  strike_range, strike_groups, loopVars,
                                  fileVars, cwd, mergeVars, requests,
                                  sinceCooldown, sessionFailed,
                                  prev, found, partial, outstanding, call >>

\* lines 376-382: get_open_price and the two log lines
GetOpenPrice ==
    /\ pc = "open_price"
    /\ \E answer \in OpenPrices \cup {NONE} :
         IF answer = NONE
           THEN /\ Stop("aborted", "Exception", parts)
                /\ UNCHANGED << connected, fileVars, cwd, sessionFailed >>
           ELSE /\ open_strike' = round_to_multiple(answer, STRIKE_STEP)
                /\ logfile' = log_write(
                       log_write(logfile, Line("FETCH_OPENING", answer, NONE)),
                       Line("FETCH_OPENING_STRIKE", open_strike', NONE))
                /\ pc' = "strike_range"
                /\ UNCHANGED << raised, runs, args, connected, intervals,
                                strike_range, strike_groups, loopVars,
                                dlExists, parts, outputs, cwd, mergeVars,
                                requests, sinceCooldown,
                                sessionFailed, prev, found, partial, outstanding, call >>

\* lines 385-386: get_strike_range, then strike_range[0] and [-1] are logged
GetStrikeRange ==
    /\ pc = "strike_range"
    /\ LET r == get_strike_range(args.strikes[1], open_strike,
                                 args.strikes[2], args.strikes[3])
       IN  IF r.err \/ Len(r.val) = 0
             THEN /\ Stop("aborted",
                          IF r.err THEN "SyntaxError" ELSE "IndexError", parts)
                  /\ UNCHANGED << connected, fileVars, cwd, sessionFailed >>
             ELSE /\ strike_range' = r.val
                  /\ logfile' = log_write(logfile,
                         Line("FETCH_RANGE", r.val[1], Last(r.val)))
                  /\ pc' = "folder"
                  /\ UNCHANGED << raised, runs, args, connected, intervals,
                                  open_strike, strike_groups, loopVars,
                                  dlExists, parts, outputs, cwd, mergeVars,
                                  requests, sinceCooldown,
                                  sessionFailed, prev, found, partial, outstanding, call >>

\* lines 389-392: create_sublist(strike_range, 15), create_folder("dl")
CreateFolder ==
    /\ pc = "folder"
    /\ strike_groups' = create_sublist(strike_range, RATE_LIMIT_STRIKES)
    /\ dlExists' = TRUE
    /\ pc' = "strike"
    /\ UNCHANGED << raised, runs, args, connected, intervals, open_strike,
                    strike_range, loopVars, logfile, parts, outputs, cwd,
                    mergeVars, requests, sinceCooldown,
                    sessionFailed, prev, found, partial, outstanding, call >>


\* the step without the truncation of the 09:30 window: the file is kept
BeginStrikeKeepsFile ==
    /\ pc = "strike"
    /\ df' = ZeroFrame
    /\ pi' = 1
    /\ pc' = "fetch"
    /\ UNCHANGED << raised, runs, args, connected, planVars, wi, gi, si,
                    fileVars, cwd, mergeVars, requests,
                    sinceCooldown, sessionFailed, prev, found, partial, outstanding, call >>

\* lines 397-405: the partition path, truncation in the 09:30 window, and
\* the all-zero frame of the window's 1800 seconds
BeginStrike ==
    /\ pc = "strike"
    /\ parts' = IF start_interval = SESSION_OPEN
                  THEN Put(parts, CurStrike, EmptyFile)
                  ELSE parts
    /\ df' = ZeroFrame
    /\ pi' = 1
    /\ pc' = "fetch"
    /\ UNCHANGED << raised, runs, args, connected, planVars, wi, gi, si,
                    logfile, dlExists, outputs, cwd, mergeVars, requests,
                    sinceCooldown, sessionFailed, prev, found, partial, outstanding, call >>

\* line 408 and fetch_data up to line 113: the contract is built and the
\* request for one price type is sent to the session
SendRequest ==
    /\ pc = "fetch"
    /\ LET unit == Unit(CurStrike, PRICE_TYPES[pi], end_interval)
       IN  /\ requests' = requests (+) SetToBag({unit})
           /\ sinceCooldown' = sinceCooldown \cup {<<CurStrike, end_interval>>}
    /\ outstanding' = outstanding + 1
    /\ pc' = "await"
    /\ UNCHANGED << raised, runs, args, connected, planVars, loopVars,
                    fileVars, cwd, mergeVars, sessionFailed,
                    prev, found, partial, call >>

\* fetch_data from line 113 and line 409: reqHistoricalData returns the
\* session's answer (or raises), the bars are formatted, df.update(data)
FetchData ==
    /\ pc = "await"
    /\ LET unit == Unit(CurStrike, PRICE_TYPES[pi], end_interval)
       IN  \E answer \in {Provider(unit), "raise"} :
             LET r == fetch_data(answer)
             IN  IF r.raised
                   THEN /\ sessionFailed' = (answer = "raise")
                        /\ Stop("aborted",
                                IF answer = "raise" THEN "ConnectionError"
                                                    ELSE "TypeError", parts)
                        /\ UNCHANGED << connected, fileVars, cwd >>
                   ELSE /\ sessionFailed' = (sessionFailed \/ answer = "raise")
                        /\ outstanding' = outstanding - 1
                        /\ df' = [df EXCEPT ![pi] = r.data]
                        /\ IF pi < Len(PRICE_TYPES)
                             THEN pi' = pi + 1 /\ pc' = "fetch"
                             ELSE pi' = pi /\ pc' = "write"
                        /\ UNCHANGED << raised, runs, args, connected,
                                        planVars, wi, gi, si, fileVars, cwd,
                                        mergeVars, requests, sinceCooldown,
                                        prev, found, partial, call >>

\* lines 411-416: file_write, the FINISHED line and the NEXT line
FileWrite ==
    /\ pc = "write"
    /\ LET s == CurStrike
           r == file_write(parts, s, Chunk(s, start_interval, df))
       IN  IF r.err
             THEN /\ Stop("aborted", "ArrowInvalid", parts)
                  /\ UNCHANGED << connected, fileVars, cwd, sessionFailed >>
             ELSE /\ parts' = Put(parts, s, r.file)
                  /\ partial' = IF start_interval = LastWindow
                                  THEN partial \ {s} ELSE partial
                  /\ logfile' =
                       LET fin == log_write(logfile, Line("FINISHED", s, end_interval))
                       IN  IF /\ s # Last(CurGroup)
                              /\ CurGroup # Last(strike_groups)
                              /\ end_interval # Last(intervals)
                             THEN log_write(fin, Line("NEXT", s + STRIKE_STEP, start_interval))
                             ELSE fin
                  /\ IF si < Len(CurGroup)
                       THEN si' = si + 1 /\ pc' = "strike"
                       ELSE si' = si /\ pc' = "cooldown"
                  /\ UNCHANGED << raised, runs, args, connected, planVars,
                                  wi, gi, pi, df, dlExists, outputs, cwd,
                                  mergeVars, requests, sinceCooldown,
                                  sessionFailed, prev, found, outstanding, call >>

\* the sleep moved out of the loop over the strike groups: one cooldown per
\* window
CooldownPerWindow ==
    /\ pc = "cooldown"
    /\ sinceCooldown' = IF gi < Len(strike_groups) THEN sinceCooldown ELSE {}
    /\ IF gi < Len(strike_groups)
         THEN gi' = gi + 1 /\ wi' = wi /\ pc' = "strike"
         ELSE IF wi + 1 < Len(intervals)
           THEN gi' = 1 /\ wi' = wi + 1 /\ pc' = "strike"
           ELSE gi' = gi /\ wi' = wi /\ pc' = "merge"
    /\ si' = IF pc' = "strike" THEN 1 ELSE si
    /\ UNCHANGED << raised, runs, args, connected, planVars, pi, df,
                    fileVars, cwd, mergeVars, requests,
                    sessionFailed, prev, found, partial, outstanding, call >>

\* the merge indented into the loop over the windows: it follows the last
\* strike group of the first window
CooldownMergeInLoop ==
    /\ pc = "cooldown"
    /\ sinceCooldown' = {}
    /\ IF gi < Len(strike_groups)
         THEN gi' = gi + 1 /\ wi' = wi /\ pc' = "strike"
         ELSE gi' = gi /\ wi' = wi /\ pc' = "merge"
    /\ si' = IF pc' = "strike" THEN 1 ELSE si
    /\ UNCHANGED << raised, runs, args, connected, planVars, pi, df,
                    fileVars, cwd, mergeVars, requests,
                    sessionFailed, prev, found, partial, outstanding, call >>

\* the two outer loops exchanged: for each strike group, every window
CooldownGroupMajor ==
    /\ pc = "cooldown"
    /\ sinceCooldown' = {}
    /\ IF wi + 1 < Len(intervals)
         THEN gi' = gi /\ wi' = wi + 1 /\ pc' = "strike"
         ELSE IF gi < Len(strike_groups)
           THEN gi' = gi + 1 /\ wi' = 1 /\ pc' = "strike"
           ELSE gi' = gi /\ wi' = wi /\ pc' = "merge"
    /\ si' = IF pc' = "strike" THEN 1 ELSE si
    /\ UNCHANGED << raised, runs, args, connected, planVars, pi, df,
                    fileVars, cwd, mergeVars, requests,
                    sessionFailed, prev, found, partial, outstanding, call >>

\* line 418: time.sleep(610) after every strike group, then the next group,
\* the next window, or the merge
Cooldown ==
    /\ pc = "cooldown"
    /\ sinceCooldown' = {}
    /\ IF gi < Len(strike_groups)
         THEN gi' = gi + 1 /\ wi' = wi /\ pc' = "strike"
         ELSE IF wi + 1 < Len(intervals)
           THEN gi' = 1 /\ wi' = wi + 1 /\ pc' = "strike"
           ELSE gi' = gi /\ wi' = wi /\ pc' = "merge"
    /\ si' = IF pc' = "strike" THEN 1 ELSE si
    /\ UNCHANGED << raised, runs, args, connected, planVars, pi, df,
                    fileVars, cwd, mergeVars, requests,
                    sessionFailed, prev, found, partial, outstanding, call >>

(***************************************************************************)
(* file_merge.  The binary branch writes "intraday.parquet" and reads the  *)
(* folder "dl", whatever its arguments; the other branch writes            *)
(* out_filepath and reads dl_filepath.  glob returns the partitions in an  *)
(* order the file system decides: ascending and descending are explored.   *)
(***************************************************************************)
OutPath == args.out_filename \o (IF args.binary THEN ".parquet" ELSE ".xlsx")

MergeTarget(out_filepath, binary) ==
    IF binary THEN "intraday.parquet" ELSE out_filepath

GlobOrders(fs) == {SortAsc(DOMAIN fs), Reverse(SortAsc(DOMAIN fs))}

\* a read that returns only the first row group of the file
read_parquet_first_group(file) == SubSeq(file.rows, 1, 1)

\* pd.read_parquet: the rows of the file, in the file's order
read_parquet(file) == file.rows

\* one partition: pd.read_parquet, then write_table against SCHEMA (binary)
\* or to_excel (a sheet named after the strike).  "ok" or the exception.
merge_one(file, binary) ==
    IF file.kind # "parquet" THEN "ArrowInvalid"
    ELSE IF binary /\ file.index THEN "ValueError"
    ELSE "ok"

\* lines 421-422 and 185-196 / 204-205: the UPDATE line, the writer is
\* opened on the target, chdir into the partition folder, glob
MergeOpen ==
    /\ pc = "merge"
    /\ logfile' = log_write(logfile, Line("UPDATE", NONE, NONE))
    /\ outputs' = Put(outputs, MergeTarget(OutPath, args.binary),
                      [closed |-> FALSE, tables |-> <<>>])
    /\ cwd' = "dl"
    /\ mergeQueue' \in GlobOrders(parts)
    /\ mergeRead' = {}
    /\ pc' = "merging"
    /\ UNCHANGED << raised, runs, args, connected, planVars, loopVars,
                    dlExists, parts, requests, sinceCooldown,
                    sessionFailed, prev, found, partial, outstanding, call >>

Closed(outs, name) == Put(outs, name, [outs[name] EXCEPT !.closed = TRUE])

\* lines 198-201 / 207-212: one iteration of the loop over the partitions;
\* an exception closes the writer (the with block) and leaves file_merge
MergeFile ==
    /\ pc = "merging"
    /\ mergeQueue # <<>>
    /\ LET f == Head(mergeQueue)
           target == MergeTarget(OutPath, args.binary)
           res == merge_one(parts[f], args.binary)
       IN  /\ mergeRead' = mergeRead \cup {f}
           /\ IF res = "ok"
                THEN /\ outputs' = Put(outputs, target,
                           [outputs[target] EXCEPT !.tables =
                               Append(@, [key |-> f, rows |-> read_parquet(parts[f])])])
                     /\ mergeQueue' = Tail(mergeQueue)
                     /\ UNCHANGED << pc, raised, runs, args, connected,
                                     planVars, loopVars, logfile, dlExists,
                                     parts, cwd, requests, sinceCooldown, sessionFailed, prev, found, partial, outstanding, call >>
                ELSE /\ outputs' = Closed(outputs, target)
                     /\ pc' = "aborted"
                     /\ raised' = res
                     /\ mergeQueue' = <<>>
                     /\ wi' = 0
                     /\ UNCHANGED << runs, args, connected, planVars,
                                     gi, si, pi, df, logfile, dlExists,
                                     parts, cwd, requests, sinceCooldown,
                                     sessionFailed, prev, found, partial, outstanding, call >>

\* the with block ends, line 230 (chdir back), line 423 (the DONE line)
MergeClose ==
    /\ pc = "merging"
    /\ mergeQueue = <<>>
    /\ outputs' = Closed(outputs, MergeTarget(OutPath, args.binary))
    /\ cwd' = "."
    /\ logfile' = log_write(logfile, Line("DONE", NONE, NONE))
    /\ pc' = "disconnect"
    /\ UNCHANGED << raised, runs, args, connected, planVars, loopVars,
                    dlExists, parts, mergeVars, requests, sinceCooldown, sessionFailed, prev, found, partial, outstanding, call >>

\* line 426: ib.disconnect(), and get_data returns
Disconnect ==
    /\ pc = "disconnect"
    /\ connected' = FALSE
    /\ pc' = "done"
    /\ UNCHANGED << raised, runs, args, planVars, loopVars, fileVars, cwd,
                    mergeVars, requests, sinceCooldown, sessionFailed,
                    prev, found, partial, outstanding, call >>

(***************************************************************************)
(* The process dies (power, kill, Ctrl-C) anywhere in a run.  In the       *)
(* middle of file_write the partition may be left torn: pq.write_table     *)
(* rewrites the file in place.                                             *)
(***************************************************************************)
Crash ==
    /\ pc \in RunningPcs
    /\ \E torn \in IF pc = "write" THEN BOOLEAN ELSE {FALSE} :
         LET fs == IF torn THEN Put(parts, CurStrike, TornFile) ELSE parts
         IN  /\ parts' = fs
             /\ Stop("crashed", "none", fs)
    /\ connected' = FALSE
    /\ UNCHANGED << logfile, dlExists, outputs, cwd, sessionFailed >>

Next ==
    \/ \E a \in GetDataArgs : StartRun(a)
    \/ Connect
    \/ GetTimeIntervals
    \/ GetOpenPrice
    \/ GetStrikeRange
    \/ CreateFolder
    \/ BeginStrike
    \/ SendRequest
    \/ FetchData
    \/ FileWrite
    \/ Cooldown
    \/ MergeOpen
    \/ MergeFile
    \/ MergeClose
    \/ Disconnect
    \/ Crash

Spec == Init /\ [][Next]_vars

\* get_data called only with the arguments that give four batches
NextTwoByTwo ==
    \/ \E a \in TwoByTwoArgs : StartRun(a)
    \/ Connect
    \/ GetTimeIntervals
    \/ GetOpenPrice
    \/ GetStrikeRange
    \/ CreateFolder
    \/ BeginStrike
    \/ SendRequest
    \/ FetchData
    \/ FileWrite
    \/ Cooldown
    \/ MergeOpen
    \/ MergeFile
    \/ MergeClose
    \/ Disconnect
    \/ Crash

SpecTwoByTwo == Init /\ [][NextTwoByTwo]_vars

(***************************************************************************)
(* get_data with a session that answers every request and sleeps that     *)
(* end: get_data is one sequential thread, so the step it is at is taken.  *)
(* A run may still be killed, and a new run started, at any time; neither  *)
(* is bound to happen.                                                     *)
(***************************************************************************)
\* arguments that pass validation: one or two strikes, one or two windows,
\* from the opening or resumed at 10:00
LiveArgs ==
    [ out_filename : OutNames, binary : BOOLEAN,
      strikes : { <<30, 100, 105>>, <<30, 100, 110>> },
      times : { <<600, 630>>, <<NONE, 630>> } ]

\* reqHistoricalData returns: bars or none, not a ConnectionError
FetchDataAnswered == FetchData /\ raised' # "ConnectionError"

\* the steps of the running get_data
RunStep ==
    \/ Connect
    \/ GetTimeIntervals
    \/ GetOpenPrice
    \/ GetStrikeRange
    \/ CreateFolder
    \/ BeginStrike
    \/ SendRequest
    \/ FetchDataAnswered
    \/ FileWrite
    \/ Cooldown
    \/ MergeOpen
    \/ MergeFile
    \/ MergeClose
    \/ Disconnect

NextLive ==
    \/ \E a \in LiveArgs : StartRun(a)
    \/ RunStep
    \/ Crash

SpecLive == Init /\ [][NextLive]_vars /\ WF_vars(RunStep)


(***************************************************************************)
(* The earlier script, src/intraday.py: main() fetches the bid and ask of  *)
(* calls and puts of 60 strikes hour by hour and appends every bar to      *)
(* intraday.bin.  It is modelled over the same variables: intervals holds  *)
(* the ends of the hours, pi is the position in ['C', 'P'], and the file   *)
(* is outputs["intraday.bin"], one table per request that returned bars.   *)
(***************************************************************************)
RECURSIVE legacy_intervals_loop(_, _, _, _)
\* while current < end - delta: current += delta; intervals.append(current)
legacy_intervals_loop(current, end, delta, acc) ==
    IF current < end - delta
      THEN legacy_intervals_loop(current + delta, end, delta,
                                 Append(acc, current + delta))
      ELSE acc

\* get_time_intervals of src/intraday.py, the interval in minutes: the ends
\* of the intervals after 09:30, and 16:00 if it is not among them
legacy_get_time_intervals(interval_length) ==
    LET acc == legacy_intervals_loop(SESSION_OPEN, SESSION_CLOSE,
                                     interval_length, <<>>)
    IN  IF SESSION_CLOSE \notin Range(acc)
          THEN Append(acc, SESSION_CLOSE) ELSE acc

\* opening prices the session may report to the earlier script, in tenths
LegacyOpenPrices == {5003}

LEGACY_RIGHTS == <<"C", "P">>

LEGACY_FILENAME == "intraday.bin"

\* the requests of the earlier script for which the provider holds no bars
LegacyNoBars == {<<350, "P", 630>>}

LegacyLoopVarsUnchanged == UNCHANGED << wi, gi, si, pi >>

LegacyAbort(exc) ==
    /\ pc' = "legacy_aborted"
    /\ raised' = exc

\* main, lines 189-198: ib.connect, nothing catches a refusal
LegacyStart ==
    /\ pc = "idle"
    /\ runs < MaxLegacyRuns
    /\ runs' = runs + 1
    /\ \E refused \in BOOLEAN :
         IF refused
           THEN LegacyAbort("ConnectionRefusedError") /\ UNCHANGED connected
           ELSE pc' = "legacy_open_price" /\ connected' = TRUE /\ UNCHANGED raised
    /\ LegacyLoopVarsUnchanged
    /\ UNCHANGED << args, planVars, df, fileVars, cwd, mergeVars, requests,
                    sinceCooldown, sessionFailed, prev, found, partial,
                    outstanding, call >>

\* main, lines 201-206: get_open_price and round_to_multiple
LegacyOpenPrice ==
    /\ pc = "legacy_open_price"
    /\ \E answer \in LegacyOpenPrices \cup {NONE} :
         IF answer = NONE
           THEN LegacyAbort("Exception") /\ UNCHANGED open_strike
           ELSE /\ open_strike' = round_to_multiple(answer, STRIKE_STEP)
                /\ pc' = "legacy_plan"
                /\ UNCHANGED raised
    /\ LegacyLoopVarsUnchanged
    /\ UNCHANGED << runs, args, connected, intervals, strike_range,
                    strike_groups, df, fileVars, cwd, mergeVars, requests,
                    sinceCooldown, sessionFailed, prev, found, partial,
                    outstanding, call >>

\* main, lines 209-212: the strike range, its groups of 15 and the hours
LegacyPlan ==
    /\ pc = "legacy_plan"
    /\ strike_range' = PyRange(open_strike - STRIKE_STEP * LEGACY_NUM_OF_STRIKES,
                               open_strike + STRIKE_STEP * LEGACY_NUM_OF_STRIKES,
                               STRIKE_STEP)
    /\ strike_groups' = create_sublist(strike_range', RATE_LIMIT_STRIKES)
    /\ intervals' = legacy_get_time_intervals(LEGACY_INTERVAL_MINUTES)
    /\ wi' = 1 /\ gi' = 1 /\ si' = 1 /\ pi' = 1
    /\ pc' = "legacy_request"
    /\ UNCHANGED << raised, runs, args, connected, open_strike, df, fileVars,
                    cwd, mergeVars, requests, sinceCooldown, sessionFailed,
                    prev, found, partial, outstanding, call >>

\* file_write of src/intraday.py with bin = True: open(filename, 'ab'), the
\* records of the bars appended
legacy_file_write(outs, unit) ==
    LET old == IF LEGACY_FILENAME \in DOMAIN outs
                 THEN outs[LEGACY_FILENAME].tables ELSE <<>>
    IN  Put(outs, LEGACY_FILENAME,
            [closed |-> TRUE,
             tables |-> Append(old,
                 [key |-> unit[1],
                  rows |-> << [strike |-> unit[1], right |-> unit[2],
                               window |-> unit[3] - LEGACY_REQUEST_MINUTES] >>])])

\* main, lines 217-219, with get_data of src/intraday.py (46-83): one
\* request of "3600 S" ending at end_interval, and every bar written
LegacyRequest ==
    /\ pc = "legacy_request"
    /\ LET unit == << strike_groups[gi][si], LEGACY_RIGHTS[pi], intervals[wi] >>
       IN  \E answer \in {IF unit \in LegacyNoBars THEN "empty" ELSE "bars",
                          "raise"} :
             IF answer = "raise"
               THEN /\ LegacyAbort("ConnectionError")
                    /\ sessionFailed' = TRUE
                    /\ UNCHANGED << requests, outputs, wi, gi, si, pi >>
               ELSE /\ requests' = requests (+) SetToBag({unit})
                    /\ outputs' = IF answer = "bars"
                                    THEN legacy_file_write(outputs, unit)
                                    ELSE outputs
                    /\ IF pi < Len(LEGACY_RIGHTS)
                         THEN pi' = pi + 1 /\ si' = si /\ pc' = "legacy_request"
                         ELSE IF si < Len(strike_groups[gi])
                           THEN pi' = 1 /\ si' = si + 1 /\ pc' = "legacy_request"
                           ELSE pi' = 1 /\ si' = si /\ pc' = "legacy_cooldown"
                    /\ UNCHANGED << raised, wi, gi, sessionFailed >>
    /\ UNCHANGED << runs, args, connected, planVars, df, logfile, dlExists,
                    parts, cwd, mergeVars, sinceCooldown, prev, found,
                    partial, outstanding, call >>

\* main, line 221: time.sleep(240) after every group, then the next group,
\* the next hour, or the end of the loop
LegacyCooldown ==
    /\ pc = "legacy_cooldown"
    /\ IF gi < Len(strike_groups)
         THEN gi' = gi + 1 /\ wi' = wi /\ pc' = "legacy_request"
         ELSE IF wi < Len(intervals)
           THEN gi' = 1 /\ wi' = wi + 1 /\ pc' = "legacy_request"
           ELSE gi' = gi /\ wi' = wi /\ pc' = "legacy_disconnect"
    /\ si' = IF pc' = "legacy_request" THEN 1 ELSE si
    /\ UNCHANGED << raised, runs, args, connected, planVars, pi, df,
                    fileVars, cwd, mergeVars, requests, sinceCooldown,
                    sessionFailed, prev, found, partial, outstanding, call >>

\* main, line 224: ib.disconnect()
LegacyDisconnect ==
    /\ pc = "legacy_disconnect"
    /\ connected' = FALSE
    /\ pc' = "legacy_done"
    /\ UNCHANGED << raised, runs, args, planVars, loopVars, fileVars, cwd,
                    mergeVars, requests, sinceCooldown, sessionFailed,
                    prev, found, partial, outstanding, call >>

NextLegacy ==
    \/ LegacyStart
    \/ LegacyOpenPrice
    \/ LegacyPlan
    \/ LegacyRequest
    \/ LegacyCooldown
    \/ LegacyDisconnect

SpecLegacy == Init /\ [][NextLegacy]_vars


(***************************************************************************)
(* The binary file of src/intraday.py, byte by byte: struct.pack('iiifi')  *)
(* in file_write, struct.unpack('iiifi') in read_data_from_binary          *)
(* (src/getData/read.py).  Native layout: four-byte fields, least          *)
(* significant byte first, no padding.  Prices are given in hundredths.    *)
(***************************************************************************)
RECURSIVE Pow2(_)
Pow2(n) == IF n = 0 THEN 1 ELSE 2 * Pow2(n - 1)

Abs(x) == IF x < 0 THEN 0 - x ELSE x

\* what struct.pack accepts for an 'i' field
InInt32(v) == v >= (0 - 2147483647) - 1 /\ v <= 2147483647

\* the four bytes of an 'i' field: two's complement
struct_pack_i(v) ==
    LET w == IF v >= 0 THEN v ELSE (v + 2147483647) + 1
    IN  << w % 256, (w \div 256) % 256, (w \div 65536) % 256,
           (w \div 16777216) + (IF v >= 0 THEN 0 ELSE 128) >>

struct_unpack_i(b) ==
    LET low == b[1] + 256 * b[2] + 65536 * b[3] IN
    IF b[4] < 128 THEN low + 16777216 * b[4]
    ELSE ((low + 16777216 * (b[4] - 128)) - 2147483647) - 1

\* the single-precision number nearest to x100 / 100, as sign, exponent and
\* 24-bit significand (value = mant * 2^(exp - 23)); zero has mant 0
float32(x100) ==
    IF x100 = 0 THEN [neg |-> FALSE, exp |-> 0 - 127, mant |-> 0]
    ELSE
      LET a == Abs(x100)
          e == CHOOSE k \in (0 - 10)..20 :
                  IF k >= 0
                    THEN 100 * Pow2(k) <= a /\ a < 200 * Pow2(k)
                    ELSE 100 <= a * Pow2(0 - k) /\ a * Pow2(0 - k) < 200
          m == PyRound(a * Pow2(23 - e), 100)
      IN  IF m = Pow2(24)
            THEN [neg |-> x100 < 0, exp |-> e + 1, mant |-> Pow2(23)]
            ELSE [neg |-> x100 < 0, exp |-> e, mant |-> m]

\* the four bytes of an 'f' field
struct_pack_f(x100) ==
    LET f == float32(x100)
        bits == IF f.mant = 0 THEN 0
                ELSE (f.exp + 127) * Pow2(23) + (f.mant - Pow2(23))
    IN  << bits % 256, (bits \div 256) % 256, (bits \div 65536) % 256,
           (bits \div 16777216) + (IF f.neg THEN 128 ELSE 0) >>

struct_unpack_f(b) ==
    LET neg == b[4] >= 128
        bits == b[1] + 256 * b[2] + 65536 * b[3]
                  + 16777216 * (IF neg THEN b[4] - 128 ELSE b[4])
    IN  IF bits = 0 THEN [neg |-> neg, exp |-> 0 - 127, mant |-> 0]
        ELSE [neg |-> neg, exp |-> (bits \div Pow2(23)) - 127,
              mant |-> (bits % Pow2(23)) + Pow2(23)]

\* struct.calcsize('iiifi')
STRUCT_SIZE == 20

\* struct.pack('iiifi', time, right, side, price, strike)
struct_pack(time, right, side, price, strike) ==
    struct_pack_i(time) \o struct_pack_i(right) \o struct_pack_i(side)
      \o struct_pack_f(price) \o struct_pack_i(strike)

\* struct.unpack('iiifi', bytes_chunk)
struct_unpack(b) ==
    << struct_unpack_i(SubSeq(b, 1, 4)), struct_unpack_i(SubSeq(b, 5, 8)),
       struct_unpack_i(SubSeq(b, 9, 12)), struct_unpack_f(SubSeq(b, 13, 16)),
       struct_unpack_i(SubSeq(b, 17, 20)) >>

\* cp and ba of file_write
LEGACY_CP(right) == IF right = "C" THEN 0 ELSE 1
LEGACY_BA(side) == IF side = "B" THEN 0 ELSE 1

\* get_data of src/intraday.py, the sample of one bar (second of the day
\* t): int(bar.date.strftime('%H%M%S') + '000'), int(strike), right, low,
\* high
legacy_sample(bar) ==
    LET hhmmss == (bar.t \div 3600) * 10000 + ((bar.t \div 60) % 60) * 100
                     + (bar.t % 60)
    IN  << hhmmss * 1000, bar.strike, bar.right, bar.low, bar.high >>

\* file_write with the ask record before the bid record
legacy_file_write_bin_ask_first(file, data) ==
    file \o struct_pack(data[1], LEGACY_CP(data[3]), LEGACY_BA("A"), data[5], data[2])
         \o struct_pack(data[1], LEGACY_CP(data[3]), LEGACY_BA("B"), data[4], data[2])

\* file_write of src/intraday.py with bin = True, on the bytes of the file:
\* two records appended, the bid then the ask
legacy_file_write_bin(file, data) ==
    file \o struct_pack(data[1], LEGACY_CP(data[3]), LEGACY_BA("B"), data[4], data[2])
         \o struct_pack(data[1], LEGACY_CP(data[3]), LEGACY_BA("A"), data[5], data[2])

\* main of src/intraday.py, line 219: every sample is written as it comes
RECURSIVE legacy_write_all(_, _)
legacy_write_all(file, bars) ==
    IF bars = <<>> THEN file
    ELSE legacy_write_all(legacy_file_write_bin(file, legacy_sample(Head(bars))),
                          Tail(bars))

\* read_data_from_binary: chunks of struct_size bytes until the end of the
\* file; a shorter last chunk makes struct.unpack raise
RECURSIVE read_loop(_, _)
read_loop(bytes, data_list) ==
    IF bytes = <<>> THEN [err |-> FALSE, val |-> data_list]
    ELSE IF Len(bytes) < STRUCT_SIZE THEN [err |-> TRUE, val |-> data_list]
    ELSE read_loop(SubSeq(bytes, STRUCT_SIZE + 1, Len(bytes)),
                   Append(data_list, struct_unpack(SubSeq(bytes, 1, STRUCT_SIZE))))

read_data_from_binary(file) == read_loop(file, <<>>)

(***************************************************************************)
(* find_closest_midspread (src/find_spreads.py): the spreads whose two     *)
(* strikes are on the right side of the market price, the safety zone      *)
(* apart, and the first of them, or None.                                  *)
(***************************************************************************)
\* lines 22-37: the test of one spread
valid_spread(spread, market_price, right, saftey_zone) ==
    IF right = "P"
      THEN spread[1] < market_price - saftey_zone
             /\ spread[2] < market_price - saftey_zone
      ELSE spread[1] > market_price + saftey_zone
             /\ spread[2] > market_price + saftey_zone

find_closest_midspread(market_price, spreads, right, saftey_zone) ==
    LET valid_spreads ==
            SelectSeq(spreads,
                LAMBDA s : valid_spread(s, market_price, right, saftey_zone))
    IN  IF right \notin {"P", "C"} /\ spreads # <<>>
          THEN [err |-> TRUE, val |-> <<>>]
        ELSE IF valid_spreads = <<>> THEN [err |-> FALSE, val |-> <<>>]
        ELSE [err |-> FALSE, val |-> valid_spreads[1]]

(***************************************************************************)
(* The planning functions called on their own.  call holds the function,   *)
(* its input, and its result once it has returned; the program itself is   *)
(* not running.                                                            *)
(***************************************************************************)
programVars ==
    << pc, raised, runs, args, connected, intervals, open_strike,
       strike_range, strike_groups, wi, gi, si, pi, df, logfile,
       dlExists, parts, outputs, cwd, mergeQueue, mergeRead, requests,
       sinceCooldown, sessionFailed, prev, found, partial, outstanding >>

Calls(fn, inputs) ==
    { [fn |-> fn, input |-> i, returned |-> FALSE, result |-> <<>>] :
        i \in inputs }

\* starting and ending times: absent, on a half hour of the session, off a
\* half hour, and outside the session
TimeInputs == {NONE, 540, 570, 585, 600, 630, 900, 930, 945, 960, 990}

\* what the function called returns for its input
Eval(c) ==
    CASE c.fn = "get_time_intervals" ->
            get_time_intervals(INTERVAL_MINUTES, c.input[1], c.input[2])
      [] c.fn = "create_sublist" ->
            create_sublist(c.input[1], c.input[2])
      [] c.fn = "round_to_multiple" ->
            round_to_multiple(c.input, STRIKE_STEP)
      [] c.fn = "get_strike_range" ->
            get_strike_range(c.input[1], c.input[2], c.input[3], c.input[4])
      [] c.fn = "read_data_from_binary" ->
            read_data_from_binary(legacy_write_all(<<>>, c.input))
      [] c.fn = "find_closest_midspread" ->
            find_closest_midspread(c.input[1], c.input[2], c.input[3],
                                   c.input[4])
      [] OTHER -> <<>>

\* the function returns
Return ==
    /\ call.fn # "none"
    /\ ~call.returned
    /\ call' = [call EXCEPT !.returned = TRUE, !.result = Eval(call)]
    /\ UNCHANGED programVars

InitIntervals ==
    /\ InitProgram
    /\ call \in Calls("get_time_intervals", TimeInputs \X TimeInputs)

SpecIntervals == InitIntervals /\ [][Return]_vars

\* strike universes of 0 to MaxUniverse strikes and the batch sizes
SublistInputs ==
    { << PyRange(5400, 5400 + STRIKE_STEP * S, STRIKE_STEP), B >> :
        S \in 0..MaxUniverse, B \in (1..MaxBatch) \cup {RATE_LIMIT_STRIKES} }

InitSublist ==
    /\ InitProgram
    /\ call \in Calls("create_sublist", SublistInputs)

SpecSublist == InitSublist /\ [][Return]_vars

\* prices in tenths, from MinPrice10 to MaxPrice10
PriceInputs == MinPrice10..MaxPrice10

InitRounding ==
    /\ InitProgram
    /\ call \in Calls("round_to_multiple", PriceInputs)

SpecRounding == InitRounding /\ [][Return]_vars

\* <<number_of_strikes, opening_strike, starting_strike, ending_strike>>:
\* 0 to MaxStrikes strikes on each side, bounds absent, on and off a
\* multiple of 5, below, at and above the opening strike
StrikeBoundInputs == {NONE, 5390, 5393, 5400, 5404, 5410}

StrikeInputs ==
    (0..MaxStrikes) \X {5400, 5405} \X StrikeBoundInputs \X StrikeBoundInputs

InitStrikeRange ==
    /\ InitProgram
    /\ call \in Calls("get_strike_range", StrikeInputs)

SpecStrikeRange == InitStrikeRange /\ [][Return]_vars

\* bars of the session: at 09:30:00 and 23:59:59, calls and puts, with
\* prices of 1.05/1.10, 0.05/123.45 and -1.00/0.00
BarInputs ==
    [ t : {34200, 86399}, strike : {5400}, right : {"C", "P"},
      low : {105, 5, 0 - 100}, high : {110, 12345, 0} ]

\* the sequences of at most MaxSamples bars
BarSeqs == UNION { [1..n -> BarInputs] : n \in 0..MaxSamples }

InitBinary ==
    /\ InitProgram
    /\ call \in Calls("read_data_from_binary", BarSeqs)

SpecBinary == InitBinary /\ [][Return]_vars

\* spreads <<short strike, long strike>> around a market price of 5400:
\* put spreads below it, call spreads above it, and one across it
SpreadInputs ==
    { <<5375, 5370>>, <<5385, 5380>>, <<5395, 5390>>, <<5395, 5405>>,
      <<5405, 5410>>, <<5415, 5420>> }

\* the lists of at most MaxSpreads spreads
SpreadLists == UNION { [1..n -> SpreadInputs] : n \in 0..MaxSpreads }

\* <<market_price, spreads, right, saftey_zone>>
MidspreadInputs == {5400} \X SpreadLists \X {"P", "C"} \X {0, 10}

InitMidspread ==
    /\ InitProgram
    /\ call \in Calls("find_closest_midspread", MidspreadInputs)

SpecMidspread == InitMidspread /\ [][Return]_vars


(***************************************************************************)
(* The order operations, called on their own: order_combo_profit_taker     *)
(* with place_orders and create_order (src/order_combo.py) and             *)
(* order_single (src/order_single.py).  call.input holds the arguments and *)
(* call.result the state of the call: its position, the Order objects it   *)
(* built, the trade it holds, and what the broker session has been asked   *)
(* (io), in order.  An Order has orderId 0 and parentId 0 until they are   *)
(* set.                                                                    *)
(***************************************************************************)
\* OPPOSITE
OPPOSITE(action) == IF action = "BUY" THEN "SELL" ELSE "BUY"

\* assign_if_not_none: x, or SyntaxError when x is None
assign_if_not_none(x) == [err |-> x = NONE, val |-> x]

Order(orderType, action, lmtPrice, auxPrice) ==
    [ orderType |-> orderType, action |-> action, lmtPrice |-> lmtPrice,
      auxPrice |-> auxPrice, orderId |-> 0, parentId |-> 0 ]

\* create_order of src/order_combo.py; the chain of order_single (lines
\* 66-83) is the same
create_order(order_type, action, limit_price, stop_price) ==
    LET lmt == assign_if_not_none(limit_price)
        aux == assign_if_not_none(stop_price)
    IN  CASE order_type = "MKT" ->
               [err |-> FALSE, order |-> Order("MKT", action, NONE, NONE)]
          [] order_type = "LMT" ->
               [err |-> lmt.err, order |-> Order("LMT", action, lmt.val, NONE)]
          [] order_type = "STP" ->
               [err |-> aux.err, order |-> Order("STP", action, NONE, aux.val)]
          [] order_type = "STP LMT" ->
               [err |-> aux.err \/ lmt.err,
                order |-> Order("STP LMT", action, lmt.val, aux.val)]
          [] OTHER ->
               [err |-> TRUE, order |-> Order("", action, NONE, NONE)]

\* one request to the broker session
IoEvent(op, k, orderId, parentId) ==
    [op |-> op, k |-> k, orderId |-> orderId, parentId |-> parentId]

\* ib.placeOrder(contract, orders[k]): the order keeps its id if it has one
\* and gets the next request id otherwise; the request goes to the session
placeOrder(st, k) ==
    LET id == IF st.orders[k].orderId # 0 THEN st.orders[k].orderId
              ELSE st.nextId
    IN  [st EXCEPT !.orders[k].orderId = id,
                   !.nextId = IF st.orders[k].orderId # 0 THEN @ ELSE @ + 1,
                   !.io = Append(@, IoEvent("placeOrder", k, id,
                                            st.orders[k].parentId)),
                   !.trade = k]

\* the state of a call before its first statement
NoOrderState ==
    [ pc |-> "connect", connected |-> FALSE, io |-> <<>>, orders |-> <<>>,
      i |-> 1, trade |-> 0, nextId |-> 1, order_id |-> NONE,
      raised |-> "none" ]

\* order types, prices and stop-loss types: known and unknown, given and
\* missing
OrderTypeInputs == {"MKT", "LMT", "STP", "STP LMT", "TRAIL"}
StopLossTypeInputs == {"STP", "STP LMT", "MKT"}
LimitPriceInputs == {NONE, 10}
StopPriceInputs == {NONE, 9}

ComboArgs ==
    [ legs : { << <<5470, "SELL", "C">>, <<5480, "BUY", "C">> >> },
      action : {"BUY"},
      order_type : OrderTypeInputs,
      limit_price : LimitPriceInputs, stop_price : StopPriceInputs,
      stop_loss_type : StopLossTypeInputs,
      stop_loss_limit_price : LimitPriceInputs,
      stop_loss_stop_price : StopPriceInputs,
      profit_taker : BOOLEAN ]

SingleArgs ==
    [ action : {"BUY", "SELL"}, order_type : OrderTypeInputs,
      limit_price : LimitPriceInputs, stop_price : StopPriceInputs ]

OrderCalls(fn, inputs) ==
    { [fn |-> fn, input |-> a, returned |-> FALSE, result |-> NoOrderState] :
        a \in inputs }

OrderFns == {"order_combo_profit_taker", "order_single"}

\* the call is at position p
OrderAt(p) == call.fn \in OrderFns /\ call.result.pc = p

\* an exception leaves the operation: nothing after it runs
OrderRaise(exc) ==
    call' = [call EXCEPT !.result.pc = "raised", !.result.raised = exc]

\* ib = IB(); ib.connect(...): order_combo.py 136-137, order_single.py 45-46
OrderConnect ==
    /\ OrderAt("connect")
    /\ call' = [call EXCEPT
           !.result.connected = TRUE,
           !.result.io = Append(@, IoEvent("connect", 0, 0, 0)),
           !.result.pc = IF call.fn = "order_single" THEN "create"
                         ELSE "contract"]
    /\ UNCHANGED programVars

\* order_combo.py 140-145: the Bag, with get_contract (95-108) qualifying
\* the contract of every leg with the session
ComboContract ==
    /\ OrderAt("contract")
    /\ call' = [call EXCEPT
           !.result.io = @ \o [l \in DOMAIN call.input.legs |->
                                 IoEvent("qualifyContracts", l, 0, 0)],
           !.result.pc = "create"]
    /\ UNCHANGED programVars

\* order_combo.py 147-170: the parent order, the stop loss order (or
\* SyntaxError for another stop loss type) and the profit taker
ComboOrders(a) ==
    LET parent == create_order(a.order_type, a.action, a.limit_price,
                               a.stop_price)
        stop == create_order(a.stop_loss_type, OPPOSITE(a.action),
                             a.stop_loss_limit_price, a.stop_loss_stop_price)
        taker == Order("LMT", OPPOSITE(a.action), NONE, NONE)
    IN  IF parent.err THEN [err |-> TRUE, orders |-> <<>>]
        ELSE IF a.stop_loss_type \notin {"STP", "STP LMT"} \/ stop.err
          THEN [err |-> TRUE, orders |-> <<parent.order>>]
        ELSE [err |-> FALSE,
              orders |-> IF a.profit_taker
                           THEN <<parent.order, stop.order, taker>>
                           ELSE <<parent.order, stop.order>>]

\* order_single.py 60-83: the order and its prices
SingleOrders(a) ==
    LET o == create_order(a.order_type, a.action, a.limit_price, a.stop_price)
    IN  [err |-> o.err, orders |-> IF o.err THEN <<>> ELSE <<o.order>>]

CreateOrders ==
    /\ OrderAt("create")
    /\ LET r == IF call.fn = "order_single" THEN SingleOrders(call.input)
                ELSE ComboOrders(call.input)
       IN  IF r.err
             THEN OrderRaise("SyntaxError")
             ELSE call' = [call EXCEPT
                      !.result.orders = r.orders,
                      !.result.pc = IF call.fn = "order_single"
                                      THEN "place_single" ELSE "place_parent"]
    /\ UNCHANGED programVars

\* place_orders, lines 28-30: the parent order is placed
PlaceParent ==
    /\ OrderAt("place_parent")
    /\ call' = [call EXCEPT
           !.result = [placeOrder(@, 1) EXCEPT !.pc = "place_loop", !.i = 1]]
    /\ UNCHANGED programVars

\* place_orders, lines 32-35: one iteration of the loop over orders[0:]:
\* parentId is taken from the trade held, the order is placed, and its
\* trade is the one held from then on
PlaceNext ==
    /\ OrderAt("place_loop")
    /\ call.result.i <= Len(call.result.orders)
    /\ LET st == call.result
           k == st.i
           attached == [st EXCEPT
                          !.orders[k].parentId = st.orders[st.trade].orderId]
       IN  call' = [call EXCEPT
               !.result = [placeOrder(attached, k) EXCEPT !.i = k + 1]]
    /\ UNCHANGED programVars

\* place_orders, line 37: the id of the order of the trade held
PlaceReturn ==
    /\ OrderAt("place_loop")
    /\ call.result.i > Len(call.result.orders)
    /\ call' = [call EXCEPT
           !.result.order_id = call.result.orders[call.result.trade].orderId,
           !.result.pc = "disconnect"]
    /\ UNCHANGED programVars

\* order_single.py 86-93: the order is placed and its id read
PlaceSingle ==
    /\ OrderAt("place_single")
    /\ LET st == placeOrder(call.result, 1)
       IN  call' = [call EXCEPT
               !.result = [st EXCEPT !.order_id = st.orders[1].orderId,
                                     !.pc = "disconnect"]]
    /\ UNCHANGED programVars

\* ib.disconnect() and return order_id: order_combo.py 175-177,
\* order_single.py 95-97
OrderDisconnect ==
    /\ OrderAt("disconnect")
    /\ call' = [call EXCEPT
           !.returned = TRUE,
           !.result.connected = FALSE,
           !.result.io = Append(@, IoEvent("disconnect", 0, 0, 0)),
           !.result.pc = "returned"]
    /\ UNCHANGED programVars

InitOrders ==
    /\ InitProgram
    /\ call \in OrderCalls("order_combo_profit_taker", ComboArgs)
                  \cup OrderCalls("order_single", SingleArgs)

NextOrders ==
    \/ OrderConnect
    \/ ComboContract
    \/ CreateOrders
    \/ PlaceParent
    \/ PlaceNext
    \/ PlaceReturn
    \/ PlaceSingle
    \/ OrderDisconnect

SpecOrders == InitOrders /\ [][NextOrders]_vars


(***************************************************************************)
(* Notions the properties share.                                           *)
(***************************************************************************)
\* the loop of get_data is over: every batch has been fetched and written
LoopOver == pc \in {"merge", "merging", "disconnect", "done"}

\* the windows of the run, by their ends, and its universe of work units
WindowEnds == {intervals[w + 1] : w \in 1..(Len(intervals) - 1)}

UniverseUnits ==
    {Unit(s, PRICE_TYPES[p], e) :
        s \in Range(strike_range), p \in DOMAIN PRICE_TYPES, e \in WindowEnds}

\* the chunk the provider's data gives for a strike and a window
ProviderChunk(s, w) ==
    Chunk(s, w, [p \in DOMAIN PRICE_TYPES |->
                    Provider(Unit(s, PRICE_TYPES[p], w + INTERVAL_MINUTES)) = "bars"])

\* the artifact the current run's merge writes
Target == MergeTarget(OutPath, args.binary)

\* the rows an artifact holds for a partition key (none if it has no table)
RowsOf(out, key) ==
    LET hits == {i \in DOMAIN out.tables : out.tables[i].key = key}
    IN  IF hits = {} THEN <<>>
        ELSE out.tables[CHOOSE i \in hits : TRUE].rows

KeysOf(out) == {out.tables[i].key : i \in DOMAIN out.tables}

(***************************************************************************)
(* C3.  Universe coverage: an uninterrupted run of get_data requests every *)
(* unit of (windows) x (strike universe) x (four price types) exactly      *)
(* once, and never a unit outside it.                                      *)
(***************************************************************************)
C3_UniverseCoverage ==
    /\ \A u \in BagToSet(requests) :
          u \in UniverseUnits /\ CopiesIn(u, requests) = 1
    /\ LoopOver => BagToSet(requests) = UniverseUnits

\* a finished run over two strike groups (16 strikes): 64 requests
C3_Witness ==
    /\ pc = "done"
    /\ Len(strike_groups) = 2
    /\ BagCardinality(requests) = 4 * Len(strike_range) * (Len(intervals) - 1)
    /\ BagCardinality(requests) = 64

ResumedRun ==
    /\ prev.outcome \in {"crashed", "aborted"}
    /\ prev.window # NONE
    /\ args.strikes = prev.args.strikes
    /\ args.binary = prev.args.binary
    /\ args.out_filename = prev.args.out_filename
    /\ args.times[2] = prev.args.times[2]
    /\ intervals # <<>>
    /\ intervals[1] = prev.window

FoundRows(s) ==
    IF s \in DOMAIN found.parts THEN found.parts[s].rows ELSE <<>>

C1_ResumeExactlyOnce ==
    (pc = "done" /\ ResumedRun) =>
        \A s \in Range(strike_range) :
            LET Earlier(c) == c.window < prev.window
                resumed == [w \in 1..(Len(intervals) - 1) |->
                               ProviderChunk(s, intervals[w])]
            IN  RowsOf(outputs[Target], s)
                    = SelectSeq(FoundRows(s), Earlier) \o resumed

(***************************************************************************)
(* C2.  Idempotence: two complete runs in a row with the same arguments    *)
(* leave a merged dataset with the content of the first run's.             *)
(***************************************************************************)
C2_Idempotent ==
    (pc = "done" /\ prev.outcome = "done" /\ prev.args = args) =>
        /\ Target \in DOMAIN found.outputs
        /\ KeysOf(outputs[Target]) = KeysOf(found.outputs[Target])
        /\ \A s \in KeysOf(outputs[Target]) :
              RowsOf(outputs[Target], s) = RowsOf(found.outputs[Target], s)

(***************************************************************************)
(* C4.  Truncate-on-first-touch.  A write step is the step of file_write   *)
(* that stores the frame of the current strike and window.                 *)
(***************************************************************************)
WriteStep == pc = "write" /\ pc' \in {"strike", "cooldown"}

C6_PartitionsDeletedAfterMerge ==
    /\ [](pc \in {"disconnect", "done"} => DOMAIN parts = {})
    /\ [][ (pc \in {"merge", "merging"}) => (parts' = parts) ]_vars

(***************************************************************************)
(* C7.  A partition that a stopped run left before its last window (one    *)
(* without the end-of-file sentinel) makes the merge fail: once the merge  *)
(* has read it, the run is aborted and the artifact holds none of it.      *)
(***************************************************************************)
C7_AbandonedPartitionFailsMerge ==
    \A s \in partial \cap mergeRead :
        /\ pc = "aborted"
        /\ s \notin KeysOf(outputs[Target])

(***************************************************************************)
(* C8.  Schema validation precedes concatenation: in a merge against the   *)
(* declared four-column schema, a partition whose columns are not those    *)
(* four makes file_merge fail, and then no row of any partition is in the  *)
(* output artifact.                                                        *)
(***************************************************************************)
C8_SchemaCheckedBeforeConcat ==
    /\ \A f \in mergeRead :
          (args.binary /\ parts[f].kind = "parquet" /\ parts[f].index) =>
              (pc = "aborted" /\ raised = "ValueError")
    /\ (pc = "aborted" /\ raised = "ValueError") =>
          outputs[Target].tables = <<>>

(***************************************************************************)
(* C9.  A hard failure of the session during a fetch aborts the run: the   *)
(* step that meets it ends get_data with the exception, with partitions,   *)
(* artifacts and log as they were, and no step of the run follows it (no   *)
(* further request, no merge, no zero-filled write for the unit).          *)
(***************************************************************************)
C9_HardFailureAborts ==
    [][ (sessionFailed' /\ runs' = runs) =>
          /\ pc' = "aborted"
          /\ raised' = "ConnectionError"
          /\ parts' = parts
          /\ outputs' = outputs
          /\ logfile' = logfile
          /\ sessionFailed => requests' = requests ]_vars

\* the failure came in the second window, after partitions were written
C9_Witness ==
    /\ sessionFailed
    /\ pc = "aborted"
    /\ wi = 2
    /\ \E s \in DOMAIN parts : Len(parts[s].rows) >= 1

(***************************************************************************)
(* C10.  Connection refused at startup.  The steps of a run up to the      *)
(* refusal are the call (which creates the log) and the refused connect.   *)
(***************************************************************************)
CallStep == runs' = runs + 1

RefusalStep ==
    pc = "connect" /\ pc' = "aborted" /\ raised' = "ConnectionError"

\* as claimed: no file is created, truncated or written
C10_NoFileTouchedOnRefusal ==
    [][ (CallStep \/ RefusalStep) => fileVars' = fileVars ]_vars

\* as the code has it: the log file is created or truncated by the call
\* and holds the one error line after the refusal; no partition, folder or
\* artifact is touched
C10_OnlyLogTouchedOnRefusal ==
    [][ /\ CallStep =>
            /\ logfile' = [exists |-> TRUE, lines |-> <<>>]
            /\ parts' = parts /\ outputs' = outputs /\ dlExists' = dlExists
        /\ RefusalStep =>
            /\ logfile' = [exists |-> TRUE,
                           lines |-> << Line("ERROR", NONE, NONE) >>]
            /\ parts' = parts /\ outputs' = outputs /\ dlExists' = dlExists
            /\ ~connected' ]_vars

\* a refused run that found partitions and an artifact of an earlier run
C10_Witness ==
    /\ pc = "aborted"
    /\ raised = "ConnectionError"
    /\ ~connected
    /\ ~sessionFailed
    /\ DOMAIN parts # {}
    /\ DOMAIN outputs # {}
    /\ logfile.lines = << Line("ERROR", NONE, NONE) >>

(***************************************************************************)
(* C11.  Validation precedes network activity: when get_data ends with a   *)
(* validation error (invalid time bounds or strike bounds), no call to     *)
(* the market-data session has been made: no connect, no opening-price     *)
(* request, and the loop of series requests has not been entered.          *)
(***************************************************************************)
C11_ValidationBeforeNetwork ==
    (pc = "aborted" /\ raised = "SyntaxError") =>
        /\ ~connected
        /\ open_strike = NONE
        /\ strike_groups = <<>>

(***************************************************************************)
(* C12.  A work unit for which the provider returns no bars.               *)
(***************************************************************************)
\* the rows the partition of the current strike holds
CurRowCount ==
    IF CurStrike \in DOMAIN parts THEN RowCount(parts[CurStrike]) ELSE 0

FinishedInLog ==
    { <<logfile.lines[i].a, logfile.lines[i].b>> :
        i \in {j \in DOMAIN logfile.lines : logfile.lines[j].tag = "FINISHED"} }

\* the number of frames of window w in the partition of strike s
WindowChunks(fs, s, w) ==
    IF s \in DOMAIN fs
      THEN Cardinality({i \in DOMAIN fs[s].rows : fs[s].rows[i].window = w})
      ELSE 0

C13_CheckpointAtBatchBoundary ==
    (pc \in {"done", "aborted", "crashed"} /\ strike_groups # <<>>) =>
        \A w \in 1..(Len(intervals) - 1), g \in DOMAIN strike_groups :
            \/ \A s \in Range(strike_groups[g]) :
                  <<s, intervals[w + 1]>> \in FinishedInLog
            \/ \A s \in Range(strike_groups[g]) :
                  /\ <<s, intervals[w + 1]>> \notin FinishedInLog
                  /\ WindowChunks(parts, s, intervals[w])
                        <= WindowChunks(found.parts, s, intervals[w])

(***************************************************************************)
(* C14.  Merge once, after the last batch.  file_merge is invoked at most  *)
(* once in a run, and once in every run whose loop has ended; when it is   *)
(* invoked every batch of the run has been fetched, written and followed   *)
(* by its cooldown; and from then on the run issues no request and         *)
(* changes no partition.                                                   *)
(***************************************************************************)
\* the number of times the current run has invoked file_merge: each
\* invocation is preceded by its UPDATE line in the log
MergeCount ==
    Cardinality({i \in DOMAIN logfile.lines : logfile.lines[i].tag = "UPDATE"})

C14_MergeOnceAfterLastBatch ==
    /\ [](/\ MergeCount <= 1
          /\ pc \in {"merging", "disconnect", "done"} => MergeCount = 1
          /\ pc \in LoopPcs => MergeCount = 0
          /\ pc \in {"merge", "merging", "disconnect", "done"} =>
                /\ BagToSet(requests) = UniverseUnits
                /\ sinceCooldown = {}
                /\ \A s \in Range(strike_range), w \in 1..(Len(intervals) - 1) :
                      /\ <<s, intervals[w + 1]>> \in FinishedInLog
                      /\ WindowChunks(parts, s, intervals[w]) >= 1)
    /\ [][ (pc \in {"merge", "merging", "disconnect"} /\ runs' = runs) =>
              /\ parts' = parts
              /\ requests' \sqsubseteq requests ]_vars

\* a completed run of two windows that merged
C14_Witness ==
    /\ pc = "done"
    /\ MergeCount = 1
    /\ Len(intervals) = 3
    /\ Len(strike_range) = 2

(***************************************************************************)
(* C15.  Batches are processed one after the other in index order, the     *)
(* time window major and the strike group minor: while the loop runs,      *)
(* every request issued belongs to the current batch or an earlier one,    *)
(* every unit of every earlier batch has been requested and its frame      *)
(* written, and at most one request to the session is outstanding.         *)
(***************************************************************************)
\* index of the batch of window w and strike group g
BatchIndex(w, g) == (w - 1) * Len(strike_groups) + g

\* the units of the batch of window w and strike group g
BatchUnits(w, g) ==
    {Unit(s, PRICE_TYPES[p], intervals[w + 1]) :
        s \in Range(strike_groups[g]), p \in DOMAIN PRICE_TYPES}

C15_SequentialBatches ==
    /\ outstanding <= 1
    /\ pc \in LoopPcs =>
          \A w \in 1..(Len(intervals) - 1), g \in DOMAIN strike_groups :
              /\ BatchIndex(w, g) > BatchIndex(wi, gi) =>
                    BatchUnits(w, g) \cap BagToSet(requests) = {}
              /\ BatchIndex(w, g) < BatchIndex(wi, gi) =>
                    /\ BatchUnits(w, g) \subseteq BagToSet(requests)
                    /\ \A s \in Range(strike_groups[g]) :
                          /\ <<s, intervals[w + 1]>> \in FinishedInLog
                          /\ WindowChunks(parts, s, intervals[w]) >= 1

\* the fourth batch is being fetched, a request outstanding
C15_Witness ==
    /\ pc = "await"
    /\ outstanding = 1
    /\ Len(strike_groups) = 2
    /\ Len(intervals) = 3
    /\ wi = 2 /\ gi = 2

(***************************************************************************)
(* C16.  Row conservation in merge: after a successful file_merge the      *)
(* artifact holds one table per partition read, each with exactly the      *)
(* rows of its partition in the partition's order, and the number of rows  *)
(* of the artifact is the sum of the numbers of rows of the partitions.    *)
(***************************************************************************)
RECURSIVE SumRows(_, _)
\* the rows of the partitions of fs named in S, counted
SumRows(fs, S) ==
    IF S = {} THEN 0
    ELSE LET f == CHOOSE x \in S : TRUE
         IN  RowCount(fs[f]) + SumRows(fs, S \ {f})

RECURSIVE ArtifactRowCount(_)
\* the rows of the tables of an artifact, counted
ArtifactRowCount(tables) ==
    IF tables = <<>> THEN 0
    ELSE SECONDS_PER_WINDOW * Len(Head(tables).rows)
            + ArtifactRowCount(Tail(tables))

C16_MergeConservesRows ==
    pc \in {"disconnect", "done"} =>
        LET out == outputs[Target]
        IN  /\ out.closed
            /\ Len(out.tables) = Cardinality(mergeRead)
            /\ KeysOf(out) = mergeRead
            /\ \A i \in DOMAIN out.tables :
                  out.tables[i].rows = parts[out.tables[i].key].rows
            /\ ArtifactRowCount(out.tables) = SumRows(parts, mergeRead)

\* a successful merge of two partitions, one of them of two windows
C16_Witness ==
    /\ pc = "done"
    /\ Cardinality(mergeRead) = 2
    /\ \E f \in mergeRead : Len(parts[f].rows) = 2
    /\ ArtifactRowCount(outputs[Target].tables) >= 3 * SECONDS_PER_WINDOW

(***************************************************************************)
(* C17.  The time windows a run fetches are consecutive, do not overlap    *)
(* and together cover the session from 09:30 to 16:00, and the duration    *)
(* of each request is the length of its window.  Stated of the run of the  *)
(* earlier script: the window of a request is the duration requested,      *)
(* back from the end time requested.                                       *)
(***************************************************************************)
\* the windows, <<start, end>>, of the requests issued so far
LegacyRequestedWindows ==
    { << u[3] - LEGACY_REQUEST_MINUTES, u[3] >> : u \in BagToSet(requests) }

C17_WindowsPartitionSession ==
    pc \in {"legacy_request", "legacy_cooldown", "legacy_disconnect",
            "legacy_done"} =>
        /\ \A a, b \in LegacyRequestedWindows :
              a = b \/ a[2] <= b[1] \/ b[2] <= a[1]
        /\ \A a \in LegacyRequestedWindows :
              a[1] >= SESSION_OPEN /\ a[2] <= SESSION_CLOSE
        /\ \A i \in DOMAIN intervals :
              intervals[i] - (IF i = 1 THEN SESSION_OPEN ELSE intervals[i - 1])
                  = LEGACY_REQUEST_MINUTES
        /\ pc = "legacy_done" =>
              \A m \in SESSION_OPEN..(SESSION_CLOSE - 1) :
                  \E a \in LegacyRequestedWindows : a[1] <= m /\ m < a[2]

(***************************************************************************)
(* C18.  get_time_intervals fails exactly when an explicit starting_time   *)
(* is not one of the half hours 09:30, ..., 15:30, or an explicit          *)
(* ending_time is not one of 10:00, ..., 16:00, or the end (16:00 if       *)
(* absent) is not after the start (09:30 if absent); otherwise it returns  *)
(* the half hours from the start to the end, both included.                *)
(***************************************************************************)
HalfHours ==
    {SESSION_OPEN + INTERVAL_MINUTES * k :
        k \in 0..((SESSION_CLOSE - SESSION_OPEN) \div INTERVAL_MINUTES)}

C18_TimeValidation ==
    (call.fn = "get_time_intervals" /\ call.returned) =>
        LET s == call.input[1]
            e == call.input[2]
            st == IF s = NONE THEN SESSION_OPEN ELSE s
            et == IF e = NONE THEN SESSION_CLOSE ELSE e
            invalid == \/ s # NONE /\ s \notin HalfHours \ {SESSION_CLOSE}
                       \/ e # NONE /\ e \notin HalfHours \ {SESSION_OPEN}
                       \/ et <= st
            r == call.result
        IN  /\ r.err = invalid
            /\ ~invalid =>
                  /\ Len(r.val) = (et - st) \div INTERVAL_MINUTES + 1
                  /\ \A i \in DOMAIN r.val :
                        r.val[i] = st + INTERVAL_MINUTES * (i - 1)
                  /\ r.val[1] = st /\ Last(r.val) = et

\* an explicit start and end on half hours, and the boundaries returned
C18_Witness ==
    /\ call.fn = "get_time_intervals"
    /\ call.returned
    /\ call.input = <<600, 930>>
    /\ ~call.result.err
    /\ Len(call.result.val) = 12

(***************************************************************************)
(* C19.  Batch sizing: for a universe of S strikes and a batch size        *)
(* B >= 1, create_sublist returns ceil(S/B) groups, every group but the    *)
(* last of exactly B strikes, the last of 1 to B, and the groups in order  *)
(* make up the universe.                                                   *)
(***************************************************************************)
RECURSIVE Concat(_)
Concat(seqs) ==
    IF seqs = <<>> THEN <<>> ELSE Head(seqs) \o Concat(Tail(seqs))

C19_BatchSizing ==
    (call.fn = "create_sublist" /\ call.returned) =>
        LET list == call.input[1]
            B == call.input[2]
            S == Len(list)
            groups == call.result
        IN  /\ Len(groups) = (S + B - 1) \div B
            /\ \A g \in 1..(Len(groups) - 1) : Len(groups[g]) = B
            /\ Len(groups) > 0 =>
                  Len(Last(groups)) >= 1 /\ Len(Last(groups)) <= B
            /\ Concat(groups) = list

\* 11 strikes from 5400 in batches of 5: groups of 5, 5 and 1
C19_Witness ==
    /\ call.fn = "create_sublist"
    /\ call.returned
    /\ Len(call.input[1]) = 11 /\ call.input[2] = 5
    /\ call.result = << <<5400, 5405, 5410, 5415, 5420>>,
                        <<5425, 5430, 5435, 5440, 5445>>,
                        <<5450>> >>

(***************************************************************************)
(* C20.  Rounding: round_to_multiple(x, 5) is a multiple of 5 at most 2.5  *)
(* from x, and a value halfway between two multiples goes by one rule: to  *)
(* the multiple that is an even number of fives (round half to even).      *)
(* Prices are in tenths.                                                   *)
(***************************************************************************)
C20_Rounding ==
    (call.fn = "round_to_multiple" /\ call.returned) =>
        LET x10 == call.input
            r == call.result
        IN  /\ r % STRIKE_STEP = 0
            /\ 10 * r - x10 <= 25
            /\ x10 - 10 * r <= 25
            /\ (x10 % (10 * STRIKE_STEP) = 25) => (r \div STRIKE_STEP) % 2 = 0

\* 5007.5, halfway between 5005 and 5010, goes up to 5010
C20_Witness ==
    /\ call.fn = "round_to_multiple"
    /\ call.returned
    /\ call.input = 50075
    /\ call.result = 5010

(***************************************************************************)
(* C21.  Strike universe: with no explicit bounds get_strike_range returns *)
(* the opening strike with number_of_strikes strikes below it and          *)
(* number_of_strikes strikes above it, in steps of 5; with explicit bounds *)
(* it returns every multiple of 5 from the rounded starting strike to the  *)
(* rounded ending strike, both included.                                   *)
(***************************************************************************)
\* the multiples of 5 from lo to hi, both included
StrikesBetween(lo, hi) == PyRange(lo, hi + STRIKE_STEP, STRIKE_STEP)

C21_StrikeUniverse ==
    (call.fn = "get_strike_range" /\ call.returned /\ ~call.result.err) =>
        LET n  == call.input[1]
            o  == call.input[2]
            s  == call.input[3]
            e  == call.input[4]
            lo == IF s = NONE THEN o - STRIKE_STEP * n
                  ELSE round_to_multiple(10 * s, STRIKE_STEP)
            hi == IF e = NONE THEN o + STRIKE_STEP * n
                  ELSE round_to_multiple(10 * e, STRIKE_STEP)
        IN  call.result.val = StrikesBetween(lo, hi)

(***************************************************************************)
(* C22.  Strike bounds: called with explicit bounds, get_strike_range      *)
(* raises a validation error whenever starting_strike > ending_strike, and *)
(* whenever starting_strike <= ending_strike it returns a universe on      *)
(* which get_data goes on without error (the range is logged and split     *)
(* into groups).                                                           *)
(***************************************************************************)
C22_StrikeBoundsValidated ==
    [][ (/\ pc = "strike_range"
         /\ pc' \notin {"strike_range", "crashed"}
         /\ args.strikes[2] # NONE
         /\ args.strikes[3] # NONE)
        => (IF args.strikes[2] > args.strikes[3]
              THEN pc' = "aborted" /\ raised' = "SyntaxError"
              ELSE pc' = "folder" /\ raised' = "none") ]_vars

(***************************************************************************)
(* C23.  No interleaving: in every state, the partition file of strike s   *)
(* holds only rows fetched for strike s, and its rows are in ascending     *)
(* time order: the rows of a window come before the rows of every later    *)
(* window, and no window comes twice.                                      *)
(***************************************************************************)
\* every chunk of the file of strike s was fetched for s
OwnRowsOnly(fs) ==
    \A s \in DOMAIN fs :
        \A i \in DOMAIN fs[s].rows : fs[s].rows[i].strike = s

\* the chunks of every file are in strictly ascending order of window
AscendingWindows(fs) ==
    \A s \in DOMAIN fs :
        \A i \in DOMAIN fs[s].rows : \A j \in DOMAIN fs[s].rows :
            i < j => fs[s].rows[i].window < fs[s].rows[j].window

C23_NoInterleaving == OwnRowsOnly(parts) /\ AscendingWindows(parts)

(***************************************************************************)
(* C24.  Output path: for both output formats the merged artifact is       *)
(* written to the output path configured by the caller (out_filename plus  *)
(* its extension): a run creates or changes no other artifact, and when it *)
(* returns, the artifact at that path holds the partitions of the          *)
(* partition directory, each once.                                         *)
(***************************************************************************)
C24_ArtifactAtConfiguredPath ==
    /\ [][ \A n \in DOMAIN outputs' :
             (n \notin DOMAIN outputs \/ outputs'[n] # outputs[n])
                => n = OutPath ]_vars
    /\ [](pc = "done" =>
            /\ OutPath \in DOMAIN outputs
            /\ KeysOf(outputs[OutPath]) = DOMAIN parts
            /\ Len(outputs[OutPath].tables) = Cardinality(DOMAIN parts))

(***************************************************************************)
(* C25.  Session lifecycle: get_data connects its session once, in its     *)
(* connect step, and has disconnected it by the time it returns or raises, *)
(* on every path (validation failure, fetch failure, merge failure         *)
(* included).                                                              *)
(***************************************************************************)
C25_SessionReleasedOnEveryPath ==
    /\ [](pc \in {"done", "aborted"} => ~connected)
    /\ [][ (~connected /\ connected') => pc = "connect" ]_vars

(***************************************************************************)
(* C26.  Eventual completion: with a session that answers every request    *)
(* without a hard failure and cooldowns that end, a run of get_data that   *)
(* has planned its universe and is not killed eventually has requested     *)
(* every unit of the universe and reaches the merge, and from the merge it *)
(* eventually terminates.                                                  *)
(***************************************************************************)
C26_EventualCompletion ==
    /\ (pc = "folder") ~>
          (\/ pc = "crashed"
           \/ pc = "merge" /\ BagToSet(requests) = UniverseUnits)
    /\ (pc = "merge") ~> (pc \in {"done", "aborted", "crashed"})

(***************************************************************************)
(* C27.  Auditable log: between two frames of a run, the log holds one     *)
(* outcome entry for every work unit processed (zero-row units included)   *)
(* and one entry for every batch boundary passed; and the entries of a     *)
(* crashed run are still in the log after the next run has started.        *)
(***************************************************************************)
\* the lines of the log that the loop of get_data wrote: all but the lines
\* about the opening price and the strike range
LoopLines(f) ==
    {i \in DOMAIN f.lines :
        f.lines[i].tag \notin
            {"FETCH_OPENING", "FETCH_OPENING_STRIKE", "FETCH_RANGE"}}

\* the batches of the run that are over
BatchesDone ==
    IF pc = "merge" THEN (Len(intervals) - 1) * Len(strike_groups)
    ELSE (wi - 1) * Len(strike_groups) + (gi - 1)

C27_AuditableLog ==
    /\ [](pc \in {"strike", "merge"} =>
            Cardinality(LoopLines(logfile))
                = BagCardinality(requests) + BatchesDone)
    /\ [][ (pc = "crashed" /\ pc' = "connect") =>
             \A i \in DOMAIN logfile.lines :
                 /\ i \in DOMAIN logfile'.lines
                 /\ logfile'.lines[i] = logfile.lines[i] ]_vars

(***************************************************************************)
(* C28.  One row per timestamp: once a run of get_data that started at the *)
(* opening has gone through its loop without interruption, the partition   *)
(* of every strike of its universe holds the frame of every processed      *)
(* window exactly once and in order, 1800 rows per window with the four    *)
(* values CallBid, CallAsk, PutBid, PutAsk, and nothing else; when the run *)
(* has returned, the merged artifact holds the same rows for the strike.   *)
(***************************************************************************)
\* the run covers the session from its opening
FromOpening == args.times[1] = NONE

\* the windows of the run, in order, by their starts
ProcessedWindows == SubSeq(intervals, 1, Len(intervals) - 1)

\* the windows of the chunks of a file, in the file's order
WindowsOf(rows) == [i \in DOMAIN rows |-> rows[i].window]

C28_OneRowPerTimestamp ==
    (LoopOver /\ FromOpening) =>
        \A s \in Range(strike_range) :
            /\ Exists(parts, s)
            /\ parts[s].kind = "parquet"
            /\ WindowsOf(parts[s].rows) = ProcessedWindows
            /\ \A i \in DOMAIN parts[s].rows :
                  /\ parts[s].rows[i].strike = s
                  /\ Len(parts[s].rows[i].cols) = Len(PRICE_TYPES)
            /\ RowCount(parts[s]) = SECONDS_PER_WINDOW * Len(ProcessedWindows)
            /\ pc = "done" => RowsOf(outputs[Target], s) = parts[s].rows

\* a run from the opening over two windows has returned, and a partition of
\* its universe held rows when the run started
C28_Witness ==
    /\ pc = "done"
    /\ FromOpening
    /\ Len(ProcessedWindows) = 2
    /\ \E s \in Range(strike_range) :
          /\ Exists(found.parts, s)
          /\ found.parts[s].rows # <<>>
          /\ Len(parts[s].rows) = 2

(***************************************************************************)
(* C29.  Binary record round trip: for every sequence of samples that      *)
(* file_write wrote in binary mode, read_data_from_binary returns two      *)
(* records per sample, in the order written, the bid record then the ask   *)
(* record, each as (timestamp, right, side, price, strike) with the        *)
(* timestamp, the right (0 = Call, 1 = Put), the side (0 = Bid, 1 = Ask)   *)
(* and the strike that were written and the price as the nearest           *)
(* single-precision number; every timestamp written (HHMMSS followed by    *)
(* 000) fits a signed 32-bit integer.                                      *)
(***************************************************************************)
\* f is the single-precision number nearest to x100 / 100
NearestSingle(f, x100) ==
    IF x100 = 0 THEN f.mant = 0
    ELSE /\ f.neg = (x100 < 0)
         /\ f.mant >= Pow2(23) /\ f.mant < Pow2(24)
         /\ 2 * Abs(100 * f.mant - Abs(x100) * Pow2(23 - f.exp)) <= 100

\* record is what the reader must return for one side of a bar
RecordOf(record, bar, side, price) ==
    /\ record[1] = 1000 * ((bar.t \div 3600) * 10000
                             + ((bar.t \div 60) % 60) * 100 + (bar.t % 60))
    /\ InInt32(record[1])
    /\ record[2] = (IF bar.right = "C" THEN 0 ELSE 1)
    /\ record[3] = side
    /\ NearestSingle(record[4], price)
    /\ record[5] = bar.strike

C30_OnlyUniverseStrikesMerged ==
    (pc \in {"merging", "disconnect", "done"}) =>
        /\ KeysOf(outputs[Target]) \subseteq Range(strike_range)
        /\ \A i \in DOMAIN outputs[Target].tables :
              \A j \in DOMAIN outputs[Target].tables[i].rows :
                  outputs[Target].tables[i].rows[j].strike \in Range(strike_range)

(***************************************************************************)
(* C31.  place_orders submits the parent order first and then every        *)
(* sub-order, each order of the list being submitted to the broker exactly *)
(* once; every sub-order is submitted with parentId equal to the parent's  *)
(* order id, and the value returned is the parent order's id.              *)
(***************************************************************************)
\* the placeOrder requests the session received, in order
Placed(io) == SelectSeq(io, LAMBDA e : e.op = "placeOrder")

C31_ParentThenSubOrdersOnce ==
    (call.fn = "order_combo_profit_taker"
       /\ call.result.pc \in {"disconnect", "returned"}) =>
        LET st == call.result
            placed == Placed(st.io)
        IN  /\ Len(placed) = Len(st.orders)
            /\ \A n \in DOMAIN placed :
                  /\ placed[n].k = n
                  /\ n > 1 => placed[n].parentId = st.orders[1].orderId
            /\ st.orders[1].orderId # 0
            /\ st.order_id = st.orders[1].orderId

(***************************************************************************)
(* C32.  find_closest_midspread returns None when no spread is valid, and  *)
(* otherwise returns, among the valid spreads (puts: both strikes strictly *)
(* below market_price - safety zone; calls: both strikes strictly above    *)
(* market_price + safety zone), one whose strikes are closest to the       *)
(* market price, whatever the order of the input list.                     *)
(***************************************************************************)
\* how far the nearer strike of a spread is from the market price
SpreadDistance(spread, market_price) ==
    Min(Abs(spread[1] - market_price), Abs(spread[2] - market_price))

C32_ClosestValidSpread ==
    (call.fn = "find_closest_midspread" /\ call.returned) =>
        LET market == call.input[1]
            spreads == call.input[2]
            right == call.input[3]
            zone == call.input[4]
            valid == {s \in Range(spreads) :
                        IF right = "P"
                          THEN s[1] < market - zone /\ s[2] < market - zone
                          ELSE s[1] > market + zone /\ s[2] > market + zone}
        IN  /\ ~call.result.err
            /\ valid = {} => call.result.val = <<>>
            /\ valid # {} =>
                  /\ call.result.val \in valid
                  /\ \A s \in valid :
                        SpreadDistance(call.result.val, market)
                            <= SpreadDistance(s, market)

(***************************************************************************)
(* C33.  file_merge leaves the working directory unchanged: whenever       *)
(* file_merge is not running, after it returned or after it raised while   *)
(* reading a partition or writing the output, the working directory is the *)
(* one in effect when it was called (a process that was killed has no      *)
(* working directory to speak of).                                         *)
(***************************************************************************)
C33_WorkingDirectoryRestored ==
    /\ [](pc \notin {"merging", "crashed"} => cwd = ".")
    /\ [][ (pc = "merging" /\ pc' # "merging" /\ pc' # "crashed")
             => cwd' = "." ]_vars

(***************************************************************************)
(* C34.  Order validation: in order_single and order_combo_profit_taker an *)
(* unknown order type, an unknown stop-loss type or a missing price that   *)
(* the order type requires (limit for LMT, stop for STP, both for STP LMT) *)
(* raises a validation error before any request to the broker session      *)
(* (connect, contract qualification), and no order is placed.              *)
(***************************************************************************)
\* the price an order of this type needs is missing
MissingPrice(order_type, limit_price, stop_price) ==
    \/ order_type \in {"LMT", "STP LMT"} /\ limit_price = NONE
    \/ order_type \in {"STP", "STP LMT"} /\ stop_price = NONE

\* the arguments of the call are ones the claim says are refused
InvalidOrderArgs ==
    LET a == call.input IN
    \/ a.order_type \notin {"MKT", "LMT", "STP", "STP LMT"}
    \/ MissingPrice(a.order_type, a.limit_price, a.stop_price)
    \/ /\ call.fn = "order_combo_profit_taker"
       /\ \/ a.stop_loss_type \notin {"STP", "STP LMT"}
          \/ MissingPrice(a.stop_loss_type, a.stop_loss_limit_price,
                          a.stop_loss_stop_price)

C34_ValidationBeforeSessionIO ==
    (call.fn \in OrderFns /\ InvalidOrderArgs) =>
        /\ call.result.io = <<>>
        /\ call.result.pc \in {"connect", "raised"}
        /\ call.result.pc = "raised" => call.result.raised = "SyntaxError"

=============================================================================
